---- MODULE Spec2Model ----
(***************************************************************************)
(* A model of the environment-fragment manager of package env.            *)
(*                                                                         *)
(* State: the EnvManager fields (fragments, merged, keySources, sorted,    *)
(* ctime) and the two package-level classification tables SystemEnv and    *)
(* InnerComponentEnv.  The variables lastOp, arg, err and out record the   *)
(* most recent call, its argument, the error it returned ("" for nil) and  *)
(* what it returned or wrote.  merges counts the merges that ran since     *)
(* the last call of FeedFile (0, 1, or 2 for "two or more").               *)
(*                                                                         *)
(* Strings that regular expressions are matched against (env keys, env     *)
(* values, script bodies, patterns) are sequences of one-character         *)
(* strings.  File reads, file writes and YAML decoding are taken to        *)
(* succeed; the decoded documents are the inputs of FeedFile and           *)
(* LoadAllYaml.  A nil map reads as the empty map.                         *)
(***************************************************************************)
EXTENDS Integers, Sequences, FiniteSets, TLC

VARIABLES SystemEnv, InnerComponentEnv,
          fragments, merged, keySources, sorted, ctime,
          lastOp, arg, err, out, merges

vars == <<SystemEnv, InnerComponentEnv, fragments, merged, keySources,
          sorted, ctime, lastOp, arg, err, out, merges>>

mgr == <<fragments, merged, keySources, sorted, ctime>>
tables == <<SystemEnv, InnerComponentEnv>>

(***************************************************************************)
(* Bounds and input sets.                                                  *)
(***************************************************************************)
MaxFrags == 2

EmptyMap == <<>>
None == <<>>

\* What a call returned or wrote: nothing, search results, a file, a dump.
Output(kind, val) == [kind |-> kind, val |-> val]
NoOutput == Output("none", <<>>)

\* time.Time{} and the values time.Now() may return (whole seconds).
ZeroTime == 0
Times == {1, 2}

KeyA == <<"A">>
KeyB == <<"B">>
Keys == {KeyA, KeyB}

EnvAx == [k \in {KeyA} |-> <<"x">>]
EnvAyBy == [k \in {KeyA, KeyB} |-> IF k = KeyA THEN <<"y">> ELSE <<"A", "y">>]
EnvBx == [k \in {KeyB} |-> <<"x">>]

BashScript == [Sh |-> "bash", Data |-> <<"e", "A">>]
PwshScript == [Sh |-> "pwsh", Data |-> <<"x">>]
ZshScript == [Sh |-> "zsh", Data |-> <<"B">>]

\* The table contents a program embedding the package may have installed.
TableConfigs ==
    { [sys |-> EmptyMap, inner |-> EmptyMap],
      [sys |-> [n \in {"system_base"} |-> 1],
       inner |-> [n \in {"internal_service"} |-> 1]] }

SeqsUpTo(S, n) == UNION { [1..m -> S] : m \in 0..n }

(***************************************************************************)
(* Go map lookup: a missing key reads as the zero value.                   *)
(***************************************************************************)
Lookup(tbl, n) == IF n \in DOMAIN tbl THEN tbl[n] ELSE 0

ErrEmptyName == "fragment must have a name"
ErrSystemRange == "system fragment priority must be 0-19"
ErrInternalRange == "internal component priority must be 20-99"
ErrCustomRange == "custom fragment priority must >=100"
ErrNotBuilt == "not build complete yet"
ErrNotGen == "not gen yet"
ErrInvalidPattern == "invalid pattern"

\* validateFragment: "" stands for the nil error.
validateFragment(frag, sys, inner) ==
    IF frag.Name = "" THEN ErrEmptyName
    ELSE IF Lookup(sys, frag.Name) > 0
         THEN IF frag.Priority > 19 THEN ErrSystemRange ELSE ""
    ELSE IF Lookup(inner, frag.Name) > 0
         THEN IF frag.Priority < 20 \/ frag.Priority > 99
              THEN ErrInternalRange ELSE ""
    ELSE IF frag.Priority < 100 THEN ErrCustomRange ELSE ""

\* The decode/validate/append loop of FeedFile over the documents of a file:
\* the first invalid document ends the call, the ones before it stay appended.
RECURSIVE FeedLoop(_, _, _, _)
FeedLoop(frags, docs, sys, inner) ==
    IF docs = <<>> THEN [fragments |-> frags, err |-> ""]
    ELSE LET e == validateFragment(Head(docs), sys, inner) IN
         IF e # "" THEN [fragments |-> frags, err |-> e]
         ELSE FeedLoop(Append(frags, Head(docs)), Tail(docs), sys, inner)

(***************************************************************************)
(* sort.SliceStable with less(i, j) = Priority[i] < Priority[j].           *)
(***************************************************************************)
\* A sort that is not stable: the inserted fragment goes behind its equals.
RECURSIVE InsertUnstable(_, _)
InsertUnstable(f, t) ==
    IF t = <<>> THEN <<f>>
    ELSE IF Head(t).Priority <= f.Priority
         THEN <<Head(t)>> \o InsertUnstable(f, Tail(t))
         ELSE <<f>> \o t

RECURSIVE InsertStable(_, _)
InsertStable(f, t) ==
    IF t = <<>> THEN <<f>>
    ELSE IF Head(t).Priority < f.Priority
         THEN <<Head(t)>> \o InsertStable(f, Tail(t))
         ELSE <<f>> \o t

RECURSIVE SortStable(_)
SortStable(s) ==
    IF s = <<>> THEN <<>>
    ELSE InsertStable(Head(s), SortStable(Tail(s)))

\* for k, v := range frag.Env { merged[k] = v }
OverwriteEnv(m, env) ==
    [k \in (DOMAIN m) \cup (DOMAIN env) |->
        IF k \in DOMAIN env THEN env[k] ELSE m[k]]

\* A chain that grows at the front.
AppendSourcesFront(ks, frag) ==
    [k \in (DOMAIN ks) \cup (DOMAIN frag.Env) |->
        IF k \in DOMAIN frag.Env
        THEN <<frag.Name>> \o (IF k \in DOMAIN ks THEN ks[k] ELSE <<>>)
        ELSE ks[k]]

\* for k := range frag.Env { keySources[k] = append(keySources[k], frag.Name) }
AppendSources(ks, frag) ==
    [k \in (DOMAIN ks) \cup (DOMAIN frag.Env) |->
        IF k \in DOMAIN frag.Env
        THEN (IF k \in DOMAIN ks THEN ks[k] ELSE <<>>) \o <<frag.Name>>
        ELSE ks[k]]

RECURSIVE MergeLoop(_, _, _)
MergeLoop(frags, m, ks) ==
    IF frags = <<>> THEN [merged |-> m, keySources |-> ks]
    ELSE MergeLoop(Tail(frags),
                   OverwriteEnv(m, Head(frags).Env),
                   AppendSources(ks, Head(frags)))

\* The map SortAndMerge starts the fold from: merged is made only when nil.
MergeBase(m) == m

\* A provenance map that is made only when nil, as merged is.
SourcesKept(ks) == ks

\* The map SortAndMerge starts the provenance from: always a fresh map.
SourcesBase(ks) == EmptyMap

\* SortAndMerge as a function of the manager state and the clock reading.
SortAndMergeResult(frags, m, ks, now) ==
    LET s == SortStable(frags)
        r == MergeLoop(s, MergeBase(m), SourcesBase(ks))
    IN [fragments |-> s, merged |-> r.merged, keySources |-> r.keySources,
        sorted |-> TRUE, ctime |-> now]

(***************************************************************************)
(* Initial state: &EnvManager{} and the tables as installed.               *)
(***************************************************************************)
Init ==
    /\ \E c \in TableConfigs :
          /\ SystemEnv = c.sys
          /\ InnerComponentEnv = c.inner
    /\ fragments = <<>>
    /\ merged = EmptyMap
    /\ keySources = EmptyMap
    /\ sorted = FALSE
    /\ ctime = ZeroTime
    /\ lastOp = "new"
    /\ arg = None
    /\ err = ""
    /\ out = NoOutput
    /\ merges = 0

FeedFile(docs) ==
    /\ Len(fragments) + Len(docs) <= MaxFrags
    /\ \E r \in {FeedLoop(fragments, docs, SystemEnv, InnerComponentEnv)} :
          /\ fragments' = r.fragments
          /\ err' = r.err
    /\ lastOp' = "FeedFile"
    /\ arg' = None
    /\ out' = NoOutput
    /\ merges' = 0
    /\ UNCHANGED <<merged, keySources, sorted, ctime, tables>>

SortAndMerge ==
    /\ \E now \in Times :
          \E r \in {SortAndMergeResult(fragments, merged, keySources, now)} :
             /\ fragments' = r.fragments
             /\ merged' = r.merged
             /\ keySources' = r.keySources
             /\ sorted' = r.sorted
             /\ ctime' = r.ctime
    /\ lastOp' = "SortAndMerge"
    /\ arg' = None
    /\ err' = ""
    /\ out' = NoOutput
    /\ merges' = IF merges = 0 THEN 1 ELSE 2
    /\ UNCHANGED tables

\* time.Time.Format(time.RFC3339) and time.Parse(time.RFC3339, s): a time
\* string is a sequence; <<"T", n>> is the text of second n, <<>> is "".
FormatRFC3339(t) == <<"T", t>>
ParsesRFC3339(s) == Len(s) = 2 /\ s[1] = "T"
ParseRFC3339(s) == s[2]

\* LoadAllYaml: the decoded document d replaces fragments, sorted and ctime,
\* and SortAndMerge then runs on the result.  No fragment is validated.
LoadAllYaml(d) ==
    /\ \E now \in Times :
          LET frags1 == d.Fragments
              sorted1 == d.Sorted
              ctime1 == IF Len(d.CTime) # 0 /\ ParsesRFC3339(d.CTime)
                        THEN ParseRFC3339(d.CTime) ELSE ctime
          IN \E r \in {SortAndMergeResult(frags1, merged, keySources, now)} :
             /\ fragments' = r.fragments
             /\ merged' = r.merged
             /\ keySources' = r.keySources
             /\ sorted' = r.sorted
             /\ ctime' = r.ctime
    /\ lastOp' = "LoadAllYaml"
    /\ arg' = None
    /\ err' = ""
    /\ out' = NoOutput
    /\ merges' = 1
    /\ UNCHANGED tables

(***************************************************************************)
(* regexp.Compile and Regexp.MatchString for patterns made of literal      *)
(* characters, "." and "(".  An unclosed "(" does not compile.  A match is *)
(* unanchored: the pattern matches some substring.                         *)
(***************************************************************************)
Compiles(pattern) == \A i \in 1..Len(pattern) : pattern[i] # "("

MatchString(pattern, s) ==
    \E start \in 1..(Len(s) - Len(pattern) + 1) :
        \A j \in 1..Len(pattern) :
            pattern[j] = "." \/ pattern[j] = s[start + j - 1]

\* The orders in which a range over a map may visit its keys.
KeyOrders(env) ==
    { o \in [1..Cardinality(DOMAIN env) -> DOMAIN env] :
        \A i, j \in DOMAIN o : i # j => o[i] # o[j] }

\* One key order for the range over the env of each fragment.
RangeOrders(frags) ==
    { ords \in [1..Len(frags) ->
                  UNION { KeyOrders(frags[i].Env) : i \in 1..Len(frags) }] :
        \A i \in 1..Len(frags) : ords[i] \in KeyOrders(frags[i].Env) }

SearchResult(name, key, value) ==
    [FragmentName |-> name, Key |-> key, Value |-> value]

\* The test of the env loop of Search.
EnvMatches(pattern, k, v) == MatchString(pattern, k) \/ MatchString(pattern, v)

\* An env loop that tests key and value apart: an entry matching on both
\* yields two results.
RECURSIVE EnvHitsPerMatch(_, _, _)
EnvHitsPerMatch(frag, pattern, ks) ==
    IF ks = <<>> THEN <<>>
    ELSE LET k == Head(ks)
             v == frag.Env[k]
         IN (IF MatchString(pattern, k)
             THEN <<SearchResult(frag.Name, k, v)>> ELSE <<>>)
            \o (IF MatchString(pattern, v)
                THEN <<SearchResult(frag.Name, k, v)>> ELSE <<>>)
            \o EnvHitsPerMatch(frag, pattern, Tail(ks))

RECURSIVE EnvHits(_, _, _)
EnvHits(frag, pattern, ks) ==
    IF ks = <<>> THEN <<>>
    ELSE LET k == Head(ks)
             v == frag.Env[k]
         IN (IF EnvMatches(pattern, k, v)
             THEN <<SearchResult(frag.Name, k, v)>> ELSE <<>>)
            \o EnvHits(frag, pattern, Tail(ks))

RECURSIVE ScriptHits(_, _, _)
ScriptHits(frag, pattern, scs) ==
    IF scs = <<>> THEN <<>>
    ELSE LET sc == Head(scs) IN
         (IF MatchString(pattern, sc.Data)
          THEN <<SearchResult(frag.Name, <<"script[", sc.Sh, "]">>, sc.Data)>>
          ELSE <<>>)
         \o ScriptHits(frag, pattern, Tail(scs))

\* The fragment loop of Search; ords[i] is the key order of the i-th range.
RECURSIVE SearchScan(_, _, _, _)
SearchScan(frags, pattern, ords, i) ==
    IF i > Len(frags) THEN <<>>
    ELSE EnvHits(frags[i], pattern, ords[i])
         \o ScriptHits(frags[i], pattern, frags[i].Script)
         \o SearchScan(frags, pattern, ords, i + 1)

\* A Search that compiles the pattern before it looks at the flag.
SearchReturnCompileFirst(isSorted, frags, pattern, ords) ==
    IF ~Compiles(pattern) THEN [err |-> ErrInvalidPattern, out |-> NoOutput]
    ELSE IF ~isSorted THEN [err |-> ErrNotBuilt, out |-> NoOutput]
    ELSE [err |-> "", out |-> Output("results", SearchScan(frags, pattern, ords, 1))]

\* Search as a function: the error and the results.
SearchReturn(isSorted, frags, pattern, ords) ==
    IF ~isSorted THEN [err |-> ErrNotBuilt, out |-> NoOutput]
    ELSE IF ~Compiles(pattern) THEN [err |-> ErrInvalidPattern, out |-> NoOutput]
    ELSE [err |-> "", out |-> Output("results", SearchScan(frags, pattern, ords, 1))]

Search(pattern) ==
    /\ \E ords \in RangeOrders(fragments) :
          LET r == SearchReturn(sorted, fragments, pattern, ords) IN
             /\ err' = r.err
             /\ out' = r.out
    /\ lastOp' = "Search"
    /\ arg' = pattern
    /\ UNCHANGED <<mgr, tables, merges>>

(***************************************************************************)
(* The emitters.  A file is the sequence of its lines; a line is a tuple   *)
(* of its parts, <<>> the blank line.                                      *)
(***************************************************************************)
RECURSIVE AssignLines(_, _, _)
AssignLines(env, ks, assign) ==
    IF ks = <<>> THEN <<>>
    ELSE << <<assign, Head(ks), env[Head(ks)]>> >>
         \o AssignLines(env, Tail(ks), assign)

RECURSIVE ScriptLines(_, _)
ScriptLines(scs, sh) ==
    IF scs = <<>> THEN <<>>
    ELSE (IF Head(scs).Sh = sh THEN << <<Head(scs).Data>> >> ELSE <<>>)
         \o ScriptLines(Tail(scs), sh)

\* One pass of the fragment loop of an emitter: the header (BuildBash prints
\* it always, BuildZsh and BuildPsh only for a non-empty name), the
\* assignments, the scripts of the dialect, a blank line.
FragLines(frag, ord, always, assign, sh) ==
    (IF always \/ frag.Name # ""
     THEN << <<"# --- Fragment:", frag.Name>> >> ELSE <<>>)
    \o AssignLines(frag.Env, ord, assign)
    \o ScriptLines(frag.Script, sh)
    \o << <<>> >>

RECURSIVE BodyLines(_, _, _, _, _, _)
BodyLines(frags, ords, i, always, assign, sh) ==
    IF i > Len(frags) THEN <<>>
    ELSE FragLines(frags[i], ords[i], always, assign, sh)
         \o BodyLines(frags, ords, i + 1, always, assign, sh)

BashFile(frags, t, ords) ==
    << <<"# Env generated at", FormatRFC3339(t)>>,
       <<"export ENV_CTIME=", FormatRFC3339(t)>>,
       <<>> >>
    \o BodyLines(frags, ords, 1, TRUE, "export", "bash")

ZshFile(frags, t, ords) ==
    << <<"# Env generated at", FormatRFC3339(t)>>,
       <<"export ENV_CTIME=", FormatRFC3339(t)>> >>
    \o BodyLines(frags, ords, 1, FALSE, "export", "zsh")

PshFile(frags, t, ords) ==
    << <<"$Env:ENV_CTIME =", FormatRFC3339(t)>> >>
    \o BodyLines(frags, ords, 1, FALSE, "$Env:", "pw")

\* The gate the emitters share.
BuildReturn(isSorted, file) ==
    IF ~isSorted THEN [err |-> ErrNotBuilt, out |-> NoOutput]
    ELSE [err |-> "", out |-> Output("file", file)]

BuildBash ==
    /\ \E ords \in RangeOrders(fragments) :
          LET r == BuildReturn(sorted, BashFile(fragments, ctime, ords)) IN
             /\ err' = r.err
             /\ out' = r.out
    /\ lastOp' = "BuildBash"
    /\ arg' = None
    /\ UNCHANGED <<mgr, tables, merges>>

BuildZsh ==
    /\ \E ords \in RangeOrders(fragments) :
          LET r == BuildReturn(sorted, ZshFile(fragments, ctime, ords)) IN
             /\ err' = r.err
             /\ out' = r.out
    /\ lastOp' = "BuildZsh"
    /\ arg' = None
    /\ UNCHANGED <<mgr, tables, merges>>

BuildPsh ==
    /\ \E ords \in RangeOrders(fragments) :
          LET r == BuildReturn(sorted, PshFile(fragments, ctime, ords)) IN
             /\ err' = r.err
             /\ out' = r.out
    /\ lastOp' = "BuildPsh"
    /\ arg' = None
    /\ UNCHANGED <<mgr, tables, merges>>

WriteMetaReturn(isSorted, t) ==
    IF ~isSorted THEN [err |-> ErrNotGen, out |-> NoOutput]
    ELSE [err |-> "", out |-> Output("file", <<FormatRFC3339(t)>>)]

WriteMeta ==
    /\ LET r == WriteMetaReturn(sorted, ctime) IN
          /\ err' = r.err
          /\ out' = r.out
    /\ lastOp' = "WriteMeta"
    /\ arg' = None
    /\ UNCHANGED <<mgr, tables, merges>>

\* SaveAllYaml marshals the dump whatever the sorted flag is.
SaveAllYamlReturn(isSorted, t, frags) ==
    [err |-> "",
     out |-> Output("yaml", [Sorted |-> isSorted,
                             CTime |-> FormatRFC3339(t),
                             Fragments |-> frags])]

SaveAllYaml ==
    /\ LET r == SaveAllYamlReturn(sorted, ctime, fragments) IN
          /\ err' = r.err
          /\ out' = r.out
    /\ lastOp' = "SaveAllYaml"
    /\ arg' = None
    /\ UNCHANGED <<mgr, tables, merges>>

\* A call of validateFragment alone.
Validate(frag) ==
    /\ err' = validateFragment(frag, SystemEnv, InnerComponentEnv)
    /\ lastOp' = "validateFragment"
    /\ arg' = frag
    /\ out' = NoOutput
    /\ UNCHANGED <<mgr, tables, merges>>

(***************************************************************************)
(* Inputs.                                                                 *)
(***************************************************************************)
Frag(n, p, e, s) == [Name |-> n, Priority |-> p, Env |-> e, Script |-> s]

Names == {"", "system_base", "internal_service", "user_service"}

\* Fragments fed to the store and merge operations.
MergePool ==
    { Frag("system_base", 10, EnvAx, <<>>),
      Frag("internal_service", 30, EnvBx, <<>>),
      Frag("user_service", 150, EnvAyBy, <<>>),
      Frag("system_base", 150, EnvAx, <<>>),
      Frag("", 150, EnvBx, <<>>) }

\* Fragments fed when the readers run too.
QueryPool ==
    { Frag("system_base", 10, EnvAx, <<BashScript>>),
      Frag("user_service", 150, EnvAyBy, <<PwshScript, BashScript>>),
      Frag("", 150, EnvBx, <<ZshScript>>) }

Patterns == { <<"A">>, <<"x">>, <<".">>, <<"(">> }

Dump(s, c, f) == [Sorted |-> s, CTime |-> c, Fragments |-> f]

\* The documents LoadAllYaml may decode, over a pool of fragments: the dumps
\* of a merged manager, and short dumps with the flag off and a bad ctime.
Dumps(pool) ==
    { Dump(TRUE, FormatRFC3339(1), f) : f \in SeqsUpTo(pool, MaxFrags) }
    \cup { Dump(FALSE, <<"garbage">>, f) : f \in SeqsUpTo(pool, 1) }

\* The files FeedFile may read: one document or more.
Files(pool) == SeqsUpTo(pool, MaxFrags) \ {<<>>}

MergeDumps == Dumps(MergePool)
MergeFiles == Files(MergePool)
QueryDumps == Dumps(QueryPool)
QueryFiles == Files(QueryPool)

\* Every priority around the limits of the three ranges.
ValidatePool ==
    { Frag(n, p, EmptyMap, <<>>) : n \in Names, p \in (-2)..101 }

Mutate(files, dumps) ==
    \/ \E docs \in files : FeedFile(docs)
    \/ SortAndMerge
    \/ \E d \in dumps : LoadAllYaml(d)

Read ==
    \/ \E pattern \in Patterns : Search(pattern)
    \/ BuildBash
    \/ BuildZsh
    \/ BuildPsh
    \/ WriteMeta
    \/ SaveAllYaml

Next == Mutate(QueryFiles, QueryDumps) \/ Read

Spec == Init /\ [][Next]_vars

NextMerge == Mutate(MergeFiles, MergeDumps)

SpecMerge == Init /\ [][NextMerge]_vars

NextValidate == \E frag \in ValidatePool : Validate(frag)

SpecValidate == Init /\ [][NextValidate]_vars

(***************************************************************************)
(* Vocabulary of the properties.                                           *)
(***************************************************************************)
MergeOps == {"SortAndMerge", "LoadAllYaml"}

\* The tier the tables give a name.
Tier(name) ==
    IF name \in DOMAIN SystemEnv THEN "System"
    ELSE IF name \in DOMAIN InnerComponentEnv THEN "Internal"
    ELSE "Custom"

InTierRange(name, p) ==
    CASE Tier(name) = "System" -> 0 <= p /\ p <= 19
      [] Tier(name) = "Internal" -> 20 <= p /\ p <= 99
      [] OTHER -> p >= 100

RangeErrors == {ErrSystemRange, ErrInternalRange, ErrCustomRange}

Definers(frags, k) == { i \in 1..Len(frags) : k \in DOMAIN frags[i].Env }

Largest(S) == CHOOSE i \in S : \A j \in S : j <= i

Winner(frags, k) == frags[Largest(Definers(frags, k))]

AllKeys(frags) == UNION { DOMAIN frags[i].Env : i \in 1..Len(frags) }

Ascending(frags) ==
    \A i, j \in 1..Len(frags) :
        i < j => frags[i].Priority <= frags[j].Priority

\* after is before reordered, with fragments of equal priority kept in the
\* order they had in before.
StableOrderOf(before, after) ==
    /\ Len(after) = Len(before)
    /\ \E p \in [1..Len(before) -> 1..Len(before)] :
          /\ \A i, j \in 1..Len(before) : i # j => p[i] # p[j]
          /\ \A i \in 1..Len(before) : after[i] = before[p[i]]
          /\ \A i, j \in 1..Len(before) :
                (i < j /\ after[i].Priority = after[j].Priority) => p[i] < p[j]

LastWriterWins(frags, m) ==
    \A k \in AllKeys(frags) :
        k \in DOMAIN m /\ m[k] = Winner(frags, k).Env[k]

\* The names of the fragments of frags that define k, in the order of frags.
RECURSIVE NamesDefining(_, _)
NamesDefining(frags, k) ==
    IF frags = <<>> THEN <<>>
    ELSE (IF k \in DOMAIN Head(frags).Env THEN <<Head(frags).Name>> ELSE <<>>)
         \o NamesDefining(Tail(frags), k)

SourcesOf(ks, k) == IF k \in DOMAIN ks THEN ks[k] ELSE <<>>

\* C1: an add succeeds exactly when the name is non-empty and the priority
\* lies in the range of the tier of the name ([0,19], [20,99], >= 100), and
\* fails with a priority-out-of-range error for every other named fragment.
C1_AddSucceedsIffInRange ==
    lastOp = "validateFragment" =>
        /\ (err = "") <=> (arg.Name # "" /\ InTierRange(arg.Name, arg.Priority))
        /\ (arg.Name # "" /\ ~InTierRange(arg.Name, arg.Priority))
              => err \in RangeErrors

\* C2: a merge leaves the fragments in ascending priority, fragments of equal
\* priority in the order they had before, and merged[k] is the value of the
\* last fragment in that order that defines k.
C2_LastWriterWins ==
    [][ (lastOp' \in MergeOps =>
            /\ Ascending(fragments')
            /\ LastWriterWins(fragments', merged'))
        /\ (lastOp' = "SortAndMerge" => StableOrderOf(fragments, fragments'))
      ]_vars

\* A merge has put two fragments of equal priority and different values for
\* key A in their insertion order, and the later one won.
C2_Witness ==
    /\ lastOp = "SortAndMerge"
    /\ \E i, j \in 1..Len(fragments) :
          /\ i < j
          /\ fragments[i].Priority = fragments[j].Priority
          /\ KeyA \in DOMAIN fragments[i].Env
          /\ KeyA \in DOMAIN fragments[j].Env
          /\ fragments[i].Env[KeyA] # fragments[j].Env[KeyA]
          /\ merged[KeyA] = fragments[j].Env[KeyA]

\* C3: after a merge keySources[k] lists the names of the fragments that
\* define k, once each, in merged order, and so ends with the name of the
\* fragment whose value is merged[k]; a key no fragment defines has no chain.
C3_ProvenanceChain ==
    merges >= 1 =>
        /\ \A k \in Keys \cup DOMAIN keySources :
              SourcesOf(keySources, k) = NamesDefining(fragments, k)
        /\ \A k \in DOMAIN keySources :
              /\ Definers(fragments, k) # {}
              /\ keySources[k][Len(keySources[k])] = Winner(fragments, k).Name
              /\ merged[k] = Winner(fragments, k).Env[k]

\* A merged key with a chain of two different fragment names.
C3_Witness ==
    /\ merges >= 1
    /\ \E k \in DOMAIN keySources :
          /\ Len(keySources[k]) >= 2
          /\ keySources[k][1] # keySources[k][2]

\* C4: after a merge, a key defined by a Custom fragment and by a System or
\* Internal fragment has the value of a Custom fragment, and its chain ends
\* with the name of a Custom fragment.
C4_CustomWins ==
    merges >= 1 =>
        \A k \in AllKeys(fragments) :
            ( /\ \E i \in Definers(fragments, k) :
                    Tier(fragments[i].Name) = "Custom"
              /\ \E i \in Definers(fragments, k) :
                    Tier(fragments[i].Name) # "Custom" )
            => /\ \E i \in Definers(fragments, k) :
                     /\ Tier(fragments[i].Name) = "Custom"
                     /\ merged[k] = fragments[i].Env[k]
               /\ Tier(keySources[k][Len(keySources[k])]) = "Custom"

GatedReaders == {"Search", "BuildBash", "BuildZsh", "BuildPsh", "WriteMeta"}
Readers == GatedReaders \cup {"SaveAllYaml"}
NotMergedErrors == {ErrNotBuilt, ErrNotGen}

\* C5 as stated: while sorted is false every reader, SaveAllYaml among them,
\* returns an error and produces no output.
C5_EveryReaderGated ==
    (~sorted /\ lastOp \in Readers) => (err # "" /\ out = NoOutput)

\* C5 as amended: while sorted is false Search, BuildBash, BuildZsh, BuildPsh
\* and WriteMeta return the not-merged error (Search also for a pattern that
\* does not compile) and produce no output; SaveAllYaml succeeds and writes
\* the dump with the flag off; none of the six changes the manager state.
C5_MergeGate ==
    [][ (~sorted /\ lastOp' \in Readers) =>
           /\ mgr' = mgr
           /\ lastOp' \in GatedReaders =>
                 (err' \in NotMergedErrors /\ out' = NoOutput)
           /\ lastOp' = "SaveAllYaml" =>
                 (err' = "" /\ out'.kind = "yaml" /\ ~out'.val.Sorted
                  /\ out'.val.Fragments = fragments)
      ]_vars

\* Search was refused on an unmerged manager that holds a fragment, with a
\* pattern that does not compile.
C5_Witness ==
    /\ ~sorted
    /\ lastOp = "Search"
    /\ ~Compiles(arg)
    /\ err = ErrNotBuilt
    /\ Len(fragments) >= 1

\* The results Search owes a fragment: one per matching env entry of its own,
\* then one per matching script, in script order.
EnvResultSet(frag, pattern) ==
    { SearchResult(frag.Name, k, frag.Env[k]) :
        k \in { x \in DOMAIN frag.Env :
                  MatchString(pattern, x) \/ MatchString(pattern, frag.Env[x]) } }

RECURSIVE ScriptResults(_, _, _)
ScriptResults(name, scs, pattern) ==
    IF scs = <<>> THEN <<>>
    ELSE (IF MatchString(pattern, Head(scs).Data)
          THEN <<SearchResult(name, <<"script[", Head(scs).Sh, "]">>,
                              Head(scs).Data)>>
          ELSE <<>>)
         \o ScriptResults(name, Tail(scs), pattern)

ResultCount(frag, pattern) ==
    Cardinality(EnvResultSet(frag, pattern))
    + Len(ScriptResults(frag.Name, frag.Script, pattern))

\* The number of results owed to the fragments before the i-th.
RECURSIVE Offset(_, _, _)
Offset(frags, pattern, i) ==
    IF i <= 1 THEN 0
    ELSE Offset(frags, pattern, i - 1) + ResultCount(frags[i - 1], pattern)

GroupedResults(res, frags, pattern) ==
    /\ Len(res) = Offset(frags, pattern, Len(frags) + 1)
    /\ \A i \in 1..Len(frags) :
          LET base == Offset(frags, pattern, i)
              envs == EnvResultSet(frags[i], pattern)
              scrs == ScriptResults(frags[i].Name, frags[i].Script, pattern)
              n == Cardinality(envs)
          IN /\ { res[base + q] : q \in 1..n } = envs
             /\ \A q \in 1..Len(scrs) : res[base + n + q] = scrs[q]

\* C6: on a merged manager and a pattern that compiles, Search succeeds and
\* returns, fragment by fragment in the current order, one result per env
\* entry of the fragment whose key or value matches, then one per matching
\* script; nothing is deduplicated, and the manager state is unchanged.
C6_SearchAuditsRawInputs ==
    [][ lastOp' = "Search" =>
           /\ mgr' = mgr
           /\ (sorted /\ Compiles(arg')) =>
                 /\ err' = ""
                 /\ out'.kind = "results"
                 /\ GroupedResults(out'.val, fragments, arg')
      ]_vars

\* A search returned key A twice, from two fragments, with two values.
C6_Witness ==
    /\ lastOp = "Search"
    /\ err = ""
    /\ \E i, j \in 1..Len(out.val) :
          /\ i < j
          /\ out.val[i].Key = KeyA
          /\ out.val[j].Key = KeyA
          /\ out.val[i].FragmentName # out.val[j].FragmentName
          /\ out.val[i].Value # out.val[j].Value

\* C7: a SortAndMerge that follows a merge with no add or restore in between
\* changes neither the fragment order nor merged nor keySources.
C7_MergeIdempotent ==
    [][ (merges >= 1 /\ lastOp' = "SortAndMerge") =>
           /\ fragments' = fragments
           /\ merged' = merged
           /\ keySources' = keySources
      ]_vars

\* Two merges in a row over fragments that share a key.
C7_Witness ==
    /\ merges = 2
    /\ Len(fragments) >= 2
    /\ \E k \in DOMAIN keySources : Len(keySources[k]) >= 2

\* C8: whenever the sorted flag is true the fragments are in non-decreasing
\* priority order.
C8_SortedFlagMeansSorted == sorted => Ascending(fragments)

\* C9: after a merge the keys of merged, the keys of keySources and the env
\* keys of the current fragments are the same set.
C9_MergeRecomputes ==
    merges >= 1 =>
        /\ DOMAIN merged = DOMAIN keySources
        /\ DOMAIN merged = AllKeys(fragments)

\* C10: every fragment the manager holds passes validateFragment.
C10_StoreValid ==
    \A i \in 1..Len(fragments) :
        validateFragment(fragments[i], SystemEnv, InnerComponentEnv) = ""

====
